---- MODULE Spec2Model ----
(***************************************************************************)
(* AngularForce: the authentication service (module 'AngularForce') and    *)
(* the entity-class factory (module 'AngularForceObjectFactory').          *)
(*                                                                         *)
(* The external collaborators (forcetk.Client, forcetk.ClientUI, the       *)
(* Cordova oauth plugin, the DOM event dispatcher) appear only as the      *)
(* events they deliver back to the callbacks this code hands them.         *)
(***************************************************************************)
EXTENDS Integers, Sequences, FiniteSets, TLC

(* ------------------------------ bounds -------------------------------- *)
MaxCalls == 1       \* login / setCordovaLoginCred / loginWeb calls tracked
MaxEvents == 1      \* salesforceSessionRefresh events delivered
MaxRequests == 1    \* data requests outstanding in the client at once

(* ------------------------- JavaScript values -------------------------- *)
Undefined == "undefined"
Null == "null"
\* values are modelled as strings; the falsy ones are undefined, null and ''
Truthy(v) == v \notin {Undefined, Null, ""}

Range(f) == {f[x] : x \in DOMAIN f}

VARIABLES
    protocol,       \* location.protocol
    cordova,        \* the global `cordova`: "undeclared", "falsy" or "present"
    inVisualforce,  \* SFConfig.inVisualforce
    haveSFConfig,   \* whether the injected SFConfig is an object
    client,         \* SFConfig.client
    listeners,      \* salesforceSessionRefresh listeners, by registering call
    credsPending,   \* outstanding getAuthCredentials requests, by call
    oauthPending,   \* outstanding ClientUI.login flows, by call
    calls,          \* one record per login-style call made so far
    last,           \* what the most recent login-style call did
    lastAuthEvent,  \* "none", "success" (a success handler ran) or "logout"
    sinceLogout,    \* logout cleared the handle, no login/oauthCallback since
    events,         \* salesforceSessionRefresh events delivered so far
    params,         \* the params object given to AngularForceObjectFactory
    class,          \* closure variables of the class the factory returned
    obj,            \* own properties of an AngularForceObject instance
    orig,           \* its _orig
    requests,       \* requests outstanding in forcetk.Client
    sent,           \* arguments of the client calls made for one instance
    done            \* callbacks run for the most recently completed request

authVars == <<client, listeners, credsPending, oauthPending, calls, last,
              lastAuthEvent, sinceLogout, events>>
envVars == <<protocol, cordova, inVisualforce, haveSFConfig>>
dataVars == <<params, class, obj, orig, requests, sent, done>>
vars == <<envVars, authVars, dataVars>>

(* ---------------------- module 'AngularForce' ------------------------- *)
authenticated == IF Truthy(client) THEN TRUE ELSE FALSE

\* What one synchronous service call does.  threw: "none" or the kind of
\* value thrown; started: login strategies entered; ext: external calls made;
\* invoked: times the caller's callback was run before the call returned.
Outcome(threw, cl, ls, cp, op, started, ext, invoked, succeeded) ==
    [threw |-> threw, client |-> cl, listeners |-> ls, credsPending |-> cp,
     oauthPending |-> op, started |-> started, ext |-> ext,
     invoked |-> invoked, succeeded |-> succeeded]

Throws(kind, started) ==
    Outcome(kind, client, listeners, credsPending, oauthPending, started,
            0, 0, FALSE)

\* this.setCordovaLoginCred = function (callback)
setCordovaLoginCred(id, cb) ==
    IF cordova = "undeclared" THEN Throws("ReferenceError", {"cordova"})
    ELSE IF cordova = "falsy" THEN Throws("string", {"cordova"})
    ELSE Outcome("none", client, Append(listeners, id),
                 credsPending \cup {id}, oauthPending, {"cordova"}, 1, 0,
                 FALSE)

\* this.loginWeb = function (callback)
loginWeb(id, cb) ==
    IF ~haveSFConfig THEN Throws("string", {"web"})
    ELSE IF Truthy(client)
    THEN Outcome("none", client, listeners, credsPending, oauthPending,
                 {"web"}, 0, IF cb THEN 1 ELSE 0, FALSE)
    ELSE Outcome("none", client, listeners, credsPending,
                 oauthPending \cup {id}, {"web"}, 1, 0, FALSE)

\* this.loginVF = function ()
loginVF ==
    IF ~haveSFConfig THEN Throws("TypeError", {"vf"})
    ELSE Outcome("none", "vf", listeners, credsPending, oauthPending,
                 {"vf"}, 0, 0, TRUE)

\* login without its already-logged-in return
login_noPresentCheck(id, cb) ==
    IF ~haveSFConfig THEN Throws("TypeError", {})
    ELSE IF protocol = "file:" /\ cordova = "undeclared"
    THEN Throws("ReferenceError", {})
    ELSE IF protocol = "file:" /\ cordova = "present"
    THEN setCordovaLoginCred(id, cb)
    ELSE IF inVisualforce THEN loginVF
    ELSE loginWeb(id, cb)

\* this.login = function (callback)
login(id, cb) ==
    IF ~haveSFConfig THEN Throws("TypeError", {})
    ELSE IF Truthy(client)
    THEN Outcome("none", client, listeners, credsPending, oauthPending,
                 {}, 0, IF cb THEN 1 ELSE 0, FALSE)
    ELSE IF protocol = "file:" /\ cordova = "undeclared"
    THEN Throws("ReferenceError", {})
    ELSE IF protocol = "file:" /\ cordova = "present"
    THEN setCordovaLoginCred(id, cb)
    ELSE IF inVisualforce THEN loginVF
    ELSE loginWeb(id, cb)

\* function salesforceSessionRefreshed(creds): the client is set first, then
\* callback() is called (a TypeError when no callback was passed).
RunCallback(cs, id, cl) ==
    IF cs[id].cb
    THEN [cs EXCEPT ![id].invoked = @ + 1,
                    ![id].invokedAbsent = @ \/ ~Truthy(cl)]
    ELSE cs

salesforceSessionRefreshed(cs, id, cl) ==
    RunCallback([cs EXCEPT ![id].succeeded = TRUE], id, cl)

\* document dispatching one salesforceSessionRefresh event to its listeners
RECURSIVE Dispatch(_, _, _)
Dispatch(ls, cs, cl) ==
    IF ls = <<>> THEN cs
    ELSE Dispatch(Tail(ls), salesforceSessionRefreshed(cs, Head(ls), cl), cl)

NewCall(op, cb, o) ==
    [cb |-> cb, started |-> o.started, succeeded |-> o.succeeded,
     invoked |-> o.invoked, invokedAbsent |-> FALSE]

LastOf(op, cb, o) ==
    [op |-> op, cb |-> cb, threw |-> o.threw, started |-> o.started,
     ext |-> o.ext, invoked |-> o.invoked, clientBefore |-> client,
     listenersBefore |-> listeners, clientAfter |-> o.client,
     listenersAfter |-> o.listeners]

\* the state change of one login-style call with outcome o
Apply(op, cb, o) ==
    /\ client' = o.client
    /\ listeners' = o.listeners
    /\ credsPending' = o.credsPending
    /\ oauthPending' = o.oauthPending
    /\ calls' = Append(calls, NewCall(op, cb, o))
    /\ last' = LastOf(op, cb, o)
    /\ lastAuthEvent' = IF o.succeeded THEN "success" ELSE lastAuthEvent
    /\ sinceLogout' = FALSE
    /\ UNCHANGED <<events, envVars, dataVars>>

Login ==
    /\ Len(calls) < MaxCalls
    /\ \E cb \in BOOLEAN : Apply("login", cb, login(Len(calls) + 1, cb))

SetCordovaLoginCred ==
    /\ Len(calls) < MaxCalls
    /\ \E cb \in BOOLEAN :
          Apply("setCordovaLoginCred", cb,
                setCordovaLoginCred(Len(calls) + 1, cb))

LoginWeb ==
    /\ Len(calls) < MaxCalls
    /\ \E cb \in BOOLEAN : Apply("loginWeb", cb, loginWeb(Len(calls) + 1, cb))

LoginVF ==
    /\ client' = loginVF.client
    /\ lastAuthEvent' = IF loginVF.succeeded THEN "success" ELSE lastAuthEvent
    /\ sinceLogout' = FALSE
    /\ UNCHANGED <<listeners, credsPending, oauthPending, calls, last, events,
                   envVars, dataVars>>

\* this.oauthCallback = function (callbackString); ok: the callback string
\* carries a session, so ClientUI.oauthCallback runs the success handler of
\* getForceTKClientUI, otherwise its (empty) error handler.
oauthCallback(ok) ==
    IF ~haveSFConfig THEN Throws("TypeError", {})
    ELSE Outcome("none", IF ok THEN "oauth" ELSE client, listeners,
                 credsPending, oauthPending, {}, 1, 0, ok)

OauthCallback ==
    \E ok \in BOOLEAN :
        /\ client' = oauthCallback(ok).client
        /\ lastAuthEvent' = IF oauthCallback(ok).succeeded THEN "success"
                            ELSE lastAuthEvent
        /\ sinceLogout' = FALSE
        /\ UNCHANGED <<listeners, credsPending, oauthPending, calls, last,
                       events, envVars, dataVars>>

\* logout without its final SFConfig.client = null
logout_keepsClient ==
    IF ~haveSFConfig THEN Throws("TypeError", {})
    ELSE Outcome("none", client, listeners, credsPending, oauthPending, {},
                 IF Truthy(client) THEN 1 ELSE 0, 0, FALSE)

\* this.logout = function (callback)
logout ==
    IF ~haveSFConfig THEN Throws("TypeError", {})
    ELSE IF Truthy(client)
    THEN Outcome("none", Null, listeners, credsPending, oauthPending, {}, 1,
                 0, FALSE)
    ELSE Outcome("none", client, listeners, credsPending, oauthPending, {},
                 0, 0, FALSE)

Logout ==
    /\ client' = logout.client
    /\ lastAuthEvent' = IF logout.threw = "none" THEN "logout"
                        ELSE lastAuthEvent
    /\ sinceLogout' = (sinceLogout \/ (Truthy(client) /\ logout.threw = "none"))
    /\ UNCHANGED <<listeners, credsPending, oauthPending, calls, last, events,
                   envVars, dataVars>>

(* ------------- events delivered by the external collaborators --------- *)
\* the oauth plugin answers getAuthCredentials with credentials
CredsSuccess ==
    \E id \in credsPending :
        /\ credsPending' = credsPending \ {id}
        /\ client' = IF haveSFConfig THEN "cordova" ELSE client
        /\ calls' = IF haveSFConfig
                    THEN salesforceSessionRefreshed(calls, id, "cordova")
                    ELSE [calls EXCEPT ![id].succeeded = TRUE]
        /\ lastAuthEvent' = IF haveSFConfig THEN "success" ELSE lastAuthEvent
        /\ UNCHANGED <<listeners, oauthPending, last, sinceLogout, events,
                       envVars, dataVars>>

\* the oauth plugin answers with an error: function getAuthCredentialsError
CredsError ==
    \E id \in credsPending :
        /\ credsPending' = credsPending \ {id}
        /\ UNCHANGED <<client, listeners, oauthPending, calls, last,
                       lastAuthEvent, sinceLogout, events, envVars, dataVars>>

\* autoRefreshOnForeground fires salesforceSessionRefresh on document
SessionRefresh ==
    /\ events < MaxEvents
    /\ listeners # <<>>
    /\ events' = events + 1
    /\ client' = IF haveSFConfig THEN "cordova" ELSE client
    /\ calls' = IF haveSFConfig THEN Dispatch(listeners, calls, "cordova")
                ELSE calls
    /\ lastAuthEvent' = IF haveSFConfig THEN "success" ELSE lastAuthEvent
    /\ UNCHANGED <<listeners, credsPending, oauthPending, last, sinceLogout,
                   envVars, dataVars>>

\* a ClientUI.login flow ends in function forceOAuthUI_successHandler; whether
\* forcetk.ClientUI also runs the argument loginWeb passed to login() is the
\* library's choice (libRuns).
OAuthFlowSuccess ==
    \E id \in oauthPending, libRuns \in BOOLEAN :
        /\ oauthPending' = oauthPending \ {id}
        /\ client' = "oauth"
        /\ calls' = IF libRuns
                    THEN RunCallback([calls EXCEPT ![id].succeeded = TRUE],
                                     id, "oauth")
                    ELSE [calls EXCEPT ![id].succeeded = TRUE]
        /\ lastAuthEvent' = "success"
        /\ UNCHANGED <<listeners, credsPending, last, sinceLogout, events,
                       envVars, dataVars>>

\* a ClientUI.login flow ends in function forceOAuthUI_errorHandler
OAuthFlowError ==
    \E id \in oauthPending :
        /\ oauthPending' = oauthPending \ {id}
        /\ UNCHANGED <<client, listeners, credsPending, calls, last,
                       lastAuthEvent, sinceLogout, events, envVars, dataVars>>

(* ----------------- module 'AngularForceObjectFactory' ------------------ *)
\* Strings are sequences of tokens and + is \o, so that the order of the
\* pieces and every blank between them stay visible.
Props == {"Id", "Name", "Stage"}
Values == {Undefined, "x"}
Errors == {"e1", "e2"}
NoData == [f \in {} |-> Undefined]
EmptyProps == [p \in Props |-> Undefined]
Record(id, name, stage) ==
    [p \in Props |-> IF p = "Id" THEN id ELSE IF p = "Name" THEN name
                     ELSE stage]
\* the records handed to the class from outside
Records == {Record("x", "x", "x"), Record("x", Undefined, "x")}

\* Array.prototype.join
RECURSIVE join(_, _)
join(arr, sep) ==
    IF arr = <<>> THEN <<>>
    ELSE IF Len(arr) = 1 THEN <<arr[1]>>
    ELSE <<arr[1]>> \o sep \o join(Tail(arr), sep)

\* //Make it soql compliant
soqlFields(p) == IF Len(p.fields) > 0 THEN join(p.fields, <<",", " ">>)
                 ELSE <<>>
soqlWhere(p) == IF Truthy(p.where) THEN <<" ", "where", " ", p.where>>
                ELSE <<>>
soqlLimit(p) == IF Truthy(p.limit) THEN <<" ", "LIMIT", " ", p.limit>>
                ELSE <<"LIMIT", " ", "25">>
soqlOrderBy(p) == IF Truthy(p.orderBy)
                  THEN <<" ", "ORDER BY", " ", p.orderBy>>
                  ELSE <<>>

\* the SOQL with ORDER BY put before the where clause
soql_orderFirst(p) ==
    <<"SELECT", " ">> \o soqlFields(p) \o <<" ", "FROM", " ">> \o <<p.type>>
        \o soqlOrderBy(p) \o soqlWhere(p) \o soqlLimit(p)

\* //Construct SOQL
soql(p) ==
    <<"SELECT", " ">> \o soqlFields(p) \o <<" ", "FROM", " ">> \o <<p.type>>
        \o soqlWhere(p) \o soqlOrderBy(p) \o soqlLimit(p)

\* //Construct SOSL
sosl(p) ==
    <<"Find", " ", "{", "__SEARCH_TERM_PLACEHOLDER__", "*}", " ",
      "IN ALL FIELDS RETURNING", " ">> \o <<p.type>> \o <<" ", "(">>
        \o soqlFields(p) \o <<")">>

\* function AngularForceObjectFactory(params)
AngularForceObjectFactory(p) ==
    [created |-> TRUE, type |-> p.type, fieldsArray |-> p.fields,
     soql |-> soql(p), sosl |-> sosl(p)]

NoClass ==
    [created |-> FALSE, type |-> Undefined, fieldsArray |-> <<>>,
     soql |-> <<>>, sosl |-> <<>>]

\* window.escape on the search terms used here
escape(term) == IF term = "a b" THEN "a%20b" ELSE term
SearchTerms == {"acme", "a b"}

\* String.prototype.replace(pattern, replacement): first occurrence
RECURSIVE replace(_, _, _)
replace(str, pat, rep) ==
    IF str = <<>> THEN <<>>
    ELSE IF Head(str) = pat THEN <<rep>> \o Tail(str)
    ELSE <<Head(str)>> \o replace(Tail(str), pat, rep)

\* A JavaScript object handed to the class: its own properties and, when it
\* has one, its _orig.
Plain(o) == [own |-> o, hasOrig |-> FALSE, _orig |-> EmptyProps]
Instance(o, og) == [own |-> o, hasOrig |-> TRUE, _orig |-> og]

\* getChangedData without its field != 'Id' test
getChangedData_withId(o) ==
    IF ~o.hasOrig THEN NoData
    ELSE [f \in {g \in Range(class.fieldsArray) : o.own[g] # o._orig[g]}
             |-> o.own[f]]

\* AngularForceObject.getChangedData = function (obj)
getChangedData(o) ==
    IF ~o.hasOrig THEN NoData
    ELSE [f \in {g \in Range(class.fieldsArray) :
                    g # "Id" /\ o.own[g] # o._orig[g]} |-> o.own[f]]

\* AngularForceObject.getNewObjectData = function (obj)
getNewObjectData(o) ==
    [f \in {g \in Range(class.fieldsArray) : g # "Id"} |-> o.own[f]]

\* one call on SFConfig.client; callback and error are what the client was
\* handed in those two positions
Request(method, text, id, data, callback, error, inst) ==
    [method |-> method, text |-> text, id |-> id, data |-> data,
     callback |-> callback, error |-> error, inst |-> inst, fresh |-> inst]

query == Request("query", class.soql, Undefined, NoData, "successCB",
                 "failureCB", FALSE)
search(term) ==
    Request("search",
            replace(class.sosl, "__SEARCH_TERM_PLACEHOLDER__", escape(term)),
            Undefined, NoData, "successCB", "failureCB", FALSE)
get(id) == Request("retrieve", <<>>, id, NoData, "wrapped", "failureCB",
                   FALSE)
save(o) == Request("create", <<>>, Undefined, getNewObjectData(o), "wrapped",
                   "failureCB", FALSE)
update(o, inst) ==
    Request("update", <<>>, o.own["Id"], getChangedData(o), "wrapped",
            "failureCB", inst)
\* remove with its two callbacks handed over in the other order
remove_swapped(o) == Request("del", <<>>, o.own["Id"], NoData, "failureCB",
                             "successCB", FALSE)
remove(o) == Request("del", <<>>, o.own["Id"], NoData, "successCB",
                     "failureCB", FALSE)

\* the data operations reach SFConfig.client.<method>; without a client that
\* member access is a TypeError and nothing else happens
CanCall == class.created /\ haveSFConfig /\ Truthy(client)
           /\ Len(requests) < MaxRequests

Issue(r) ==
    /\ CanCall
    /\ requests' = Append(requests, r)
    /\ UNCHANGED <<params, class, obj, orig, done>>

Create ==
    /\ ~class.created
    /\ class' = AngularForceObjectFactory(params)
    /\ UNCHANGED <<params, obj, orig, requests, sent, done, envVars,
                   authVars>>

Query == Issue(query) /\ UNCHANGED <<sent, envVars, authVars>>

Search == \E term \in SearchTerms :
              Issue(search(term)) /\ UNCHANGED <<sent, envVars, authVars>>

Get == \E id \in {"x"} :
           Issue(get(id)) /\ UNCHANGED <<sent, envVars, authVars>>

Save == \E o \in Records :
            Issue(save(Plain(o))) /\ UNCHANGED <<sent, envVars, authVars>>

Remove == \E o \in Records :
              Issue(remove(Plain(o))) /\ UNCHANGED <<sent, envVars, authVars>>

\* AngularForceObject.update(obj, ...) on an object that has no _orig
Update == \E o \in Records :
              Issue(update(Plain(o), FALSE))
              /\ UNCHANGED <<sent, envVars, authVars>>

\* function AngularForceObject(props): angular.copy(props, this), _orig = props
New ==
    /\ class.created
    /\ \E props \in Records :
          /\ obj' = props
          /\ orig' = props
    /\ sent' = [live |-> TRUE, ok |-> FALSE, okData |-> NoData,
                repeat |-> FALSE, data |-> NoData]
    /\ requests' = [i \in DOMAIN requests |->
                       [requests[i] EXCEPT !.inst = FALSE, !.fresh = FALSE]]
    /\ UNCHANGED <<params, class, done, envVars, authVars>>

\* the application assigns a property of the instance
Edit ==
    /\ sent.live
    /\ \E f \in Props, v \in Values :
          /\ v # obj[f]
          /\ obj' = [obj EXCEPT ![f] = v]
    /\ sent' = [sent EXCEPT !.ok = FALSE]
    /\ requests' = [i \in DOMAIN requests |->
                       [requests[i] EXCEPT !.fresh = FALSE]]
    /\ UNCHANGED <<params, class, orig, done, envVars, authVars>>

\* AngularForceObject.prototype.update
ProtoUpdate ==
    /\ sent.live
    /\ Issue(update(Instance(obj, orig), TRUE))
    /\ sent' = [sent EXCEPT !.repeat = sent.ok,
                            !.data = getChangedData(Instance(obj, orig))]
    /\ UNCHANGED <<envVars, authVars>>

\* AngularForceObject.prototype.destroy
ProtoDestroy ==
    /\ sent.live
    /\ Issue(remove(Instance(obj, orig)))
    /\ UNCHANGED <<sent, envVars, authVars>>

RemoveAt(s, i) == SubSeq(s, 1, i - 1) \o SubSeq(s, i + 1, Len(s))

\* what the function handed to the client does when the client calls it
Run(r, slot, arg) ==
    IF slot = "wrapped"
    THEN <<[cb |-> "successCB",
            arg |-> IF arg \in {"object", "created"} THEN "instance"
                    ELSE arg]>>
    ELSE IF slot \in {"successCB", "failureCB"}
    THEN <<[cb |-> slot, arg |-> arg]>>
    ELSE <<>>

Replies == {Undefined, "array", "object", "created"}

\* a success wrapper that also takes the instance as its new _orig
ClientSuccess_refreshOrig ==
    \E i \in DOMAIN requests, d \in Replies :
        /\ requests' = RemoveAt(requests, i)
        /\ done' = [method |-> requests[i].method, outcome |-> "success",
                    reported |-> d,
                    ran |-> Run(requests[i], requests[i].callback, d)]
        /\ sent' = IF requests[i].method = "update" /\ requests[i].fresh
                   THEN [sent EXCEPT !.ok = TRUE,
                                     !.okData = requests[i].data]
                   ELSE sent
        /\ orig' = IF requests[i].method = "update" /\ requests[i].fresh
                   THEN obj ELSE orig
        /\ UNCHANGED <<params, class, obj, envVars, authVars>>

\* forcetk.Client completes a request and calls its callback argument
ClientSuccess ==
    \E i \in DOMAIN requests, d \in Replies :
        /\ requests' = RemoveAt(requests, i)
        /\ done' = [method |-> requests[i].method, outcome |-> "success",
                    reported |-> d,
                    ran |-> Run(requests[i], requests[i].callback, d)]
        /\ sent' = IF requests[i].method = "update" /\ requests[i].fresh
                   THEN [sent EXCEPT !.ok = TRUE,
                                     !.okData = requests[i].data]
                   ELSE sent
        /\ UNCHANGED <<params, class, obj, orig, envVars, authVars>>

\* forcetk.Client fails a request and calls its error argument
ClientFailure ==
    \E i \in DOMAIN requests, e \in Errors :
        /\ requests' = RemoveAt(requests, i)
        /\ done' = [method |-> requests[i].method, outcome |-> "failure",
                    reported |-> e,
                    ran |-> Run(requests[i], requests[i].error, e)]
        /\ UNCHANGED <<params, class, obj, orig, sent, envVars, authVars>>

(* --------------------------- specifications --------------------------- *)
Protocols == {"file:", "https:"}
CordovaStates == {"undeclared", "falsy", "present"}

NoCall ==
    [op |-> "none", cb |-> FALSE, threw |-> "none", started |-> {},
     ext |-> 0, invoked |-> 0, clientBefore |-> Undefined,
     listenersBefore |-> <<>>, clientAfter |-> Undefined,
     listenersAfter |-> <<>>]
NoSent ==
    [live |-> FALSE, ok |-> FALSE, okData |-> NoData, repeat |-> FALSE,
     data |-> NoData]
NoneDone ==
    [method |-> "none", outcome |-> "none", reported |-> Undefined,
     ran |-> <<>>]

Param(t, fs, w, o, l) ==
    [type |-> t, fields |-> fs, where |-> w, orderBy |-> o, limit |-> l]

FieldLists == {<<>>, <<"Name">>, <<"Name", "Id">>, <<"Id", "Name", "Stage">>}
ParamsAll ==
    {Param(t, fs, w, o, l) :
        t \in {"Contact", "Account"}, fs \in FieldLists,
        w \in {Undefined, "", "IsWon = TRUE"},
        o \in {Undefined, "", "Name"}, l \in {Undefined, "", "10"}}
ParamsFew ==
    {Param("Contact", fs, "IsWon = TRUE", Undefined, Undefined) :
        fs \in {<<"Name", "Id">>, <<"Id", "Name", "Stage">>}}

\* nothing has been called yet
Fresh ==
    /\ client = Undefined
    /\ listeners = <<>>
    /\ credsPending = {}
    /\ oauthPending = {}
    /\ calls = <<>>
    /\ last = NoCall
    /\ lastAuthEvent = "none"
    /\ sinceLogout = FALSE
    /\ events = 0
    /\ class = NoClass
    /\ obj = EmptyProps
    /\ orig = EmptyProps
    /\ requests = <<>>
    /\ sent = NoSent
    /\ done = NoneDone

\* the service in every hosting context
Init ==
    /\ protocol \in Protocols
    /\ cordova \in CordovaStates
    /\ inVisualforce \in BOOLEAN
    /\ haveSFConfig \in BOOLEAN
    /\ params = Param("Contact", <<"Name", "Id">>, Undefined, Undefined,
                      Undefined)
    /\ Fresh

AuthNext ==
    \/ Login
    \/ SetCordovaLoginCred
    \/ LoginWeb
    \/ LoginVF
    \/ OauthCallback
    \/ Logout
    \/ CredsSuccess
    \/ CredsError
    \/ SessionRefresh
    \/ OAuthFlowSuccess
    \/ OAuthFlowError

StaticNext ==
    \/ Create
    \/ Query
    \/ Search
    \/ Get
    \/ Save
    \/ Update
    \/ Remove
    \/ ClientSuccess
    \/ ClientFailure

Next ==
    \/ AuthNext
    \/ Create
    \/ Query
    \/ ClientSuccess
    \/ ClientFailure

Spec == Init /\ [][Next]_vars

VisualforcePage ==
    /\ protocol = "https:"
    /\ cordova = "undeclared"
    /\ inVisualforce = TRUE
    /\ haveSFConfig = TRUE

\* every data operation of one entity class inside a Visualforce page
InitData ==
    /\ VisualforcePage
    /\ params \in ParamsFew
    /\ Fresh

NextData ==
    \/ Login
    \/ Logout
    \/ StaticNext
    \/ New
    \/ ProtoUpdate
    \/ ProtoDestroy

SpecData == InitData /\ [][NextData]_vars

\* one instance of an entity class, edited and updated
NextEntity ==
    \/ LoginVF
    \/ Create
    \/ New
    \/ Edit
    \/ ProtoUpdate
    \/ ClientSuccess
    \/ ClientFailure

SpecEntity == InitData /\ [][NextEntity]_vars

\* the factory on every combination of parameters
InitQuery ==
    /\ VisualforcePage
    /\ params \in ParamsAll
    /\ Fresh

NextQuery ==
    \/ LoginVF
    \/ Create
    \/ Query
    \/ ClientSuccess
    \/ ClientFailure

SpecQuery == InitQuery /\ [][NextQuery]_vars

(* ------------------------------ properties ---------------------------- *)

C2_CallbackAfterSuccess ==
    \A i \in DOMAIN calls :
        (haveSFConfig /\ calls[i].cb /\ calls[i].started # {}
            /\ calls[i].succeeded)
        => (calls[i].invoked >= 1 /\ ~calls[i].invokedAbsent)

ExpectedStrategy ==
    IF protocol = "file:" /\ cordova = "present" THEN "cordova"
    ELSE IF inVisualforce THEN "vf"
    ELSE "web"

\* C3: a login() made without a client starts exactly the one strategy that
\* the priority order Cordova, Visualforce, web selects.
C3_OneStrategyByPriority ==
    (last.op = "login" /\ haveSFConfig /\ ~Truthy(last.clientBefore))
    => last.started = {ExpectedStrategy}

C5_MissingDependencyThrowsString ==
    (\/ last.op = "setCordovaLoginCred" /\ cordova # "present"
     \/ last.op = "loginWeb" /\ ~haveSFConfig)
    => /\ last.threw = "string"
       /\ last.ext = 0
       /\ last.clientAfter = last.clientBefore
       /\ last.listenersAfter = last.listenersBefore

\* C6: the query string handed to the client is, blanks aside, SELECT and
\* the fields separated by commas, FROM and the type, the where clause when
\* one was given, ORDER BY when an ordering was given, then LIMIT with the
\* given limit or else 25.
Given(v) == v # Undefined /\ v # ""

RECURSIVE NoBlanks(_)
NoBlanks(str) ==
    IF str = <<>> THEN <<>>
    ELSE IF Head(str) = " " THEN NoBlanks(Tail(str))
    ELSE <<Head(str)>> \o NoBlanks(Tail(str))

CommaList(fs) ==
    [i \in 1..(IF Len(fs) = 0 THEN 0 ELSE 2 * Len(fs) - 1) |->
        IF i % 2 = 1 THEN fs[(i + 1) \div 2] ELSE ","]

ExpectedClauses(p) ==
    <<"SELECT">> \o CommaList(p.fields) \o <<"FROM", p.type>>
        \o (IF Given(p.where) THEN <<"where", p.where>> ELSE <<>>)
        \o (IF Given(p.orderBy) THEN <<"ORDER BY", p.orderBy>> ELSE <<>>)
        \o <<"LIMIT", IF Given(p.limit) THEN p.limit ELSE "25">>

Configured == Range(params.fields)

C7_ChangedData ==
    \A i \in DOMAIN requests :
        (requests[i].method = "update" /\ requests[i].fresh)
        => /\ \A f \in Props :
                 f \in DOMAIN requests[i].data
                 <=> (f \in Configured /\ f # "Id" /\ obj[f] # orig[f])
           /\ DOMAIN requests[i].data \subseteq Props
           /\ \A f \in DOMAIN requests[i].data :
                 requests[i].data[f] = obj[f]

C7_Witness ==
    \E i \in DOMAIN requests :
        /\ requests[i].method = "update" /\ requests[i].fresh
        /\ obj["Id"] # orig["Id"] /\ "Id" \in Configured
        /\ obj["Name"] # orig["Name"] /\ "Name" \in Configured
        /\ obj["Stage"] # orig["Stage"] /\ "Stage" \notin Configured

\* C8: login() with a client already present runs the callback it was given
\* at once, starts no strategy, makes no external call, registers no
\* listener and leaves the client as it was.
C8_LoginWhenPresent ==
    (last.op = "login" /\ Truthy(last.clientBefore))
    => /\ last.threw = "none"
       /\ last.invoked = (IF last.cb THEN 1 ELSE 0)
       /\ last.started = {}
       /\ last.ext = 0
       /\ last.listenersAfter = last.listenersBefore
       /\ last.clientAfter = last.clientBefore

C8_Witness == last.op = "login" /\ Truthy(last.clientBefore) /\ last.cb

\* C9: once logout() has cleared the session handle it stays absent until
\* login() or oauthCallback() is called again.
C9_StaysAbsentAfterLogout == sinceLogout => ~Truthy(client)

\* C10 as claimed: an update() repeated after a successful update(), with no
\* field changed in between, sends an empty change set.
C10_RepeatSendsNothing == sent.repeat => sent.data = NoData

\* C10 as amended: such a repeated update() sends the same change set again,
\* the difference from the snapshot taken when the instance was constructed.
C10_RepeatSendsSame == sent.repeat => sent.data = sent.okData

C10_Witness == sent.repeat /\ sent.data # NoData

\* C11: in the query string handed to the client every clause keyword that
\* occurs (FROM, where, ORDER BY, LIMIT) has a blank right before it.
ClauseKeywords == {"FROM", "where", "ORDER BY", "LIMIT"}

C11_KeywordsSeparated ==
    \A i \in DOMAIN requests :
        requests[i].method = "query"
        => \A k \in DOMAIN requests[i].text :
               requests[i].text[k] \in ClauseKeywords
               => (k > 1 /\ requests[i].text[k - 1] = " ")

====
